---- MODULE Spec2Model ----
(***************************************************************************)
(* Model of the ingestion and synchronisation pipeline of mtgdb_manager.py *)
(* (download_file, extract_zip, process_allprintings, process_file,        *)
(* download_task, download_selected and the download branch of main).      *)
(*                                                                         *)
(* The specifications share the step actions of process_file:              *)
(*   Spec        the `download` command: the coordinator (main) and one    *)
(*               worker thread per accepted line, interleaved;             *)
(*   FairSpec    the same command with fair scheduling, from an empty      *)
(*               working directory;                                        *)
(*   SpecUrls    `download --urls u1 u2` with any --db and --category,     *)
(*               from an empty working directory;                          *)
(*   SpecIngest  the `select-download` command run again and again on the  *)
(*               calling thread (thread 0), over a wide set of payloads;   *)
(*   SpecFiles   the same command with the picked file in any directory    *)
(*               and a file the system refuses to remove;                  *)
(*   SpecLinks   the `manage-links fetch` command run again and again      *)
(*               against one metadata document;                            *)
(*   SpecSync    the same command while the remote's document changes.     *)
(***************************************************************************)
EXTENDS Integers, Sequences, FiniteSets, TLC

\* ------------------------------------------------------------------ bounds
NItems == 2      \* lines of the batch = worker threads
MaxCards == 1    \* card records per set record in the enumerated payloads
MaxTime == 1     \* timestamps are 0..MaxTime

Main == 0
Workers == 1..NItems
Threads == {Main} \cup Workers
Times == 0..MaxTime
Now == MaxTime   \* the time at which this run writes files

\* ------------------------------------------------------------ value domains
None == "None"
DefaultDb == "mtg_cards.db"
DbPaths == {DefaultDb, "alt.db"}

Codes == {"SET1", "SET2"}
SetNames == {"Alpha"}
ReleaseDates == {"1993-08-05"}
Uuids == {"u1", "u2"}
CardNames == {"Bolt"}
CardTypes == {"Instant"}
Rarities == {"common"}
Texts == {"Deal 3 damage."}

\* A card-record of the payload (the keys process_allprintings reads).
CardRecs(uuids) ==
    [uuid : uuids, name : CardNames, type : CardTypes,
     rarity : Rarities, text : Texts]

\* Sequences over S of length at most n.
SeqsUpTo(S, n) == UNION {[1..k -> S] : k \in 0..n}

\* A set-record of the payload under its set-code key.
SetEntries(codes, uuids) ==
    [code : codes, name : SetNames, releaseDate : ReleaseDates,
     cards : SeqsUpTo(CardRecs(uuids), MaxCards)]

\* The parsed JSON document: a mapping whose 'data' key (when present) maps
\* set-codes to set-records.  A dict has distinct keys and keeps their order.
DistinctCodes(es) == \A i, j \in 1..Len(es) : es[i].code = es[j].code => i = j

GoodDocs ==
    {[hasData |-> TRUE, data |-> es] :
        es \in {s \in SeqsUpTo(SetEntries(Codes, Uuids), Cardinality(Codes)) :
                    DistinctCodes(s)}}
    \cup {[hasData |-> FALSE, data |-> << >>]}

\* Documents json.load accepts but whose application raises before the
\* commit: a card-record without 'uuid' (the NOT NULL primary key).
NoUuidCard == CHOOSE c \in CardRecs({None}) : TRUE
GoodEntry(code) ==
    [code |-> code, name |-> "Alpha", releaseDate |-> "1993-08-05",
     cards |-> << CHOOSE c \in CardRecs({"u1"}) : TRUE >>]
GoodEntryB ==
    [code |-> "SET2", name |-> "Alpha", releaseDate |-> "1993-08-05",
     cards |-> << CHOOSE c \in CardRecs({"u2"}) : TRUE >>]
ExampleDocA == [hasData |-> TRUE, data |-> << GoodEntry("SET1") >>]
BadEntry(code) ==
    [code |-> code, name |-> "Alpha", releaseDate |-> "1993-08-05",
     cards |-> << NoUuidCard >>]
BadDocs ==
    {[hasData |-> TRUE, data |-> << BadEntry("SET1") >>],
     [hasData |-> TRUE, data |-> << GoodEntry("SET1"), BadEntry("SET2") >>]}

Docs == GoodDocs \cup BadDocs

\* ------------------------------------------------------------ file system
\* A file name is its stem and its last suffix; a path is a directory and a
\* name.  The directory "" is that of a bare file name (the working
\* directory), "/cwd" is the working directory's absolute name.
FName(stem, ext) == [stem |-> stem, ext |-> ext]
Path(dir, name) == [dir |-> dir, name |-> name]
EndsWith(name, ext) == name.ext = ext
Dirname(p) == p.dir
Join(dir, name) == Path(dir, name)
\* The place on disk a path names.
Loc(p) == [dir |-> IF p.dir \in {"", "/cwd"} THEN "cwd" ELSE p.dir,
           name |-> p.name]

\* File contents: a JSON document, bytes that are not JSON, a zip archive
\* with its member list, or bytes that are not a zip archive.
NoDoc == [hasData |-> FALSE, data |-> << >>]
JsonFile(doc) == [kind |-> "json", doc |-> doc, members |-> << >>]
Garbage == [kind |-> "garbage", doc |-> NoDoc, members |-> << >>]
ZipFile(ms) == [kind |-> "zip", doc |-> NoDoc, members |-> ms]
BadZip == [kind |-> "badzip", doc |-> NoDoc, members |-> << >>]
Member(name, content) == [name |-> name, content |-> content]

\* check_file_exists: the modification time, or None.
NoTime == [exists |-> FALSE, mtime |-> 0]
SomeTime(m) == [exists |-> TRUE, mtime |-> m]

NoFile == [exists |-> FALSE, content |-> Garbage, mtime |-> 0]
File(content, mtime) == [exists |-> TRUE, content |-> content, mtime |-> mtime]

\* ------------------------------------------------------------------ store
\* The Set/Card store: the committed rows of the two tables.
SetRow(code, name, release_date) ==
    [code |-> code, name |-> name, release_date |-> release_date]
CardRow(c, set_code) ==
    [uuid |-> c.uuid, name |-> c.name, type |-> c.type, rarity |-> c.rarity,
     text |-> c.text, set_code |-> set_code]
EmptyTables == [sets |-> {}, cards |-> {}]

VARIABLES
    fs,            \* location -> file
    owner,         \* location -> the thread that created the file (history)
    store,         \* db path -> committed tables
    tz,            \* the machine's UTC offset (local = UTC + tz)
    remoteTime,    \* the last-modified time the remote advertises
    argDb,         \* --db / --new-db
    dialogDir,     \* the directory the file dialog returns paths in
    locked,        \* the locations whose removal the system refuses
    input,         \* the lines of the list file
    mainpc,        \* the coordinator's position
    idx,           \* the coordinator's loop index
    threads,       \* the coordinator's list of started threads
    pc,            \* thread -> position
    file_path,     \* thread -> artifact path
    category,      \* thread -> category
    json_path,     \* thread -> payload path chosen by process_file
    existing_time, \* thread -> download_file's existing_time
    body,          \* thread -> response body held by download_file
    ret,           \* thread -> download_file's return value
    dl,            \* thread -> what download_file actually did (history)
    sess,          \* thread -> its store session
    out,           \* thread -> messages printed
    head,          \* thread -> what the HEAD request returned (history)
    gets,          \* thread -> GET requests issued (history)
    fsops,         \* thread -> file writes/removals by download_file (history)
    opened,        \* thread -> sessions opened (history)
    commits,       \* thread -> commits made (history)
    runPre,        \* thread -> tables when its process_file started (history)
    runDoc,        \* thread -> document its process_file parsed (history)
    runOut,        \* thread -> how its process_file ended (history)
    prevDoc,       \* document of the last completed ingestion (history)
    used,          \* opener thread -> threads that used its session (history)
    invalid,       \* lines the coordinator reported as invalid (history)
    meta,          \* the metadata document the remote serves
    links,         \* db path -> committed rows of the links table
    linkList,      \* manage-links: the list fetch_mtgjson_files returned
    lpc,           \* manage-links: position
    lout,          \* manage-links: messages printed by the current run
    fetched,       \* manage-links: how the last fetch really ended (history)
    synced,        \* manage-links: a non-failed fetch was stored (history)
    tried          \* thread -> the removals process_file attempted (history)

env == << tz, remoteTime, argDb, dialogDir, locked, input >>
disk == << fs, owner >>
coord == << mainpc, idx, threads >>
catalog == << meta, links, linkList, lpc, lout, fetched, synced >>
vars == << fs, owner, store, env, mainpc, idx,
           threads, pc, file_path, category, json_path, existing_time, body,
           ret, dl, sess, out, head, gets, fsops, opened, commits, runPre,
           runDoc, runOut, prevDoc, used, invalid, meta, links, linkList, lpc,
           lout, fetched, synced, tried >>

\* --------------------------------------------------------- store operations
\* session.merge(row): overwrite the row with the same primary key, or add.
MergeSet(tables, row) ==
    [tables EXCEPT !.sets = {r \in @ : r.code # row.code} \cup {row}]

\* Mutant: an insert that does not look for the row it should overwrite.
MergeCardInsert(tables, row) ==
    [tables EXCEPT !.cards = @ \cup {row}]

MergeCard(tables, row) ==
    [tables EXCEPT !.cards = {r \in @ : r.uuid # row.uuid} \cup {row}]

\* Mutant: only the cards are deleted.
ClearTablesCardsOnly(tables) == [tables EXCEPT !.cards = {}]

\* session.query(Card).delete(); session.query(Set).delete()
ClearTables(tables) == [tables EXCEPT !.cards = {}, !.sets = {}]

\* data.get('data', {}).items()
DataOf(doc) == IF doc.hasData THEN doc.data ELSE << >>

\* Mutant: the card loop is skipped.
ApplyCardsSkipped(cards, set_code, tables) == tables

\* The inner loop of process_allprintings over one set-record's cards.
RECURSIVE ApplyCards(_, _, _)
ApplyCards(cards, set_code, tables) ==
    IF cards = << >> THEN tables
    ELSE ApplyCards(Tail(cards), set_code,
                    MergeCard(tables, CardRow(Head(cards), set_code)))

\* Mutant: the cards are merged but not the set row they belong to.
RECURSIVE ApplySetsCardsOnly(_, _)
ApplySetsCardsOnly(entries, tables) ==
    IF entries = << >> THEN tables
    ELSE LET e == Head(entries)
         IN ApplySetsCardsOnly(Tail(entries),
                               ApplyCards(e.cards, e.code, tables))

\* The outer loop of process_allprintings: the set row, then its cards.
RECURSIVE ApplySets(_, _)
ApplySets(entries, tables) ==
    IF entries = << >> THEN tables
    ELSE LET e == Head(entries)
             withSet == MergeSet(tables,
                                 SetRow(e.code, e.name, e.releaseDate))
         IN ApplySets(Tail(entries), ApplyCards(e.cards, e.code, withSet))

\* A Card row without its primary key cannot be flushed: the flush raises
\* before session.commit() is reached.
ApplyRaises(doc) ==
    \E i \in 1..Len(DataOf(doc)) :
        \E k \in 1..Len(DataOf(doc)[i].cards) :
            DataOf(doc)[i].cards[k].uuid = None

\* category.lower() == "allprintings"
Lower(s) ==
    CASE s = "AllPrintings" -> "allprintings"
      [] s = "Keywords" -> "keywords"
      [] OTHER -> s
IsCanonical(cat) == Lower(cat) = "allprintings"

\* ------------------------------------------------------- thread bookkeeping
Say(t, msg) == [out EXCEPT ![t] = @ \cup {msg}]

\* Where an exception leaving process_file lands: download_selected catches
\* it; in download_task it ends the worker thread.
RaiseTo(t) == IF t = Main THEN "sel_except" ELSE "crashed"
\* Where process_file returns to: download_selected's report, or the end of
\* download_task.
ReturnTo(t) == IF t = Main THEN "sel_ok" ELSE "done"

\* Mutant: process_file is handed the coordinator's session.
SessionOfMain(t) == Main

\* The session handed to process_file in thread t, named by the thread that
\* opened it: the one init_db() returned to t's own caller (download_task
\* line 319, download_selected line 2065).
SessionOf(t) == t
SessionDb(t) == sess[SessionOf(t)].db
\* Thread t issues a statement on the session it was handed.
UseSession(t) == [used EXCEPT ![SessionOf(t)] = @ \cup {t}]
OpenSession(db) == [state |-> "open", db |-> db]
NoSession == [state |-> "none", db |-> DefaultDb]

\* process_file returns.  In download_task the next statement is
\* session.close() (line 321) and the thread ends; download_selected closes
\* its session later, in its finally clause.
PfReturn(t) ==
    /\ pc' = [pc EXCEPT ![t] = ReturnTo(t)]
    /\ sess' = IF t = Main THEN sess ELSE [sess EXCEPT ![t].state = "closed"]

\* An exception leaves process_file; the session stays as it is.
PfRaise(t) ==
    /\ pc' = [pc EXCEPT ![t] = RaiseTo(t)]
    /\ UNCHANGED sess

\* extract_zip: every member lands in the working directory.
RECURSIVE ExtractAll(_, _)
ExtractAll(members, files) ==
    IF members = << >> THEN files
    ELSE ExtractAll(Tail(members),
                    [files EXCEPT ![Loc(Path("", Head(members).name))] =
                        File(Head(members).content, Now)])

\* Who created what: a file this run's threads did not create (one the
\* operator or an earlier run left, or no file) belongs to nobody.
Nobody == {}
RECURSIVE OwnAll(_, _, _)
OwnAll(members, t, own) ==
    IF members = << >> THEN own
    ELSE OwnAll(Tail(members), t,
                [own EXCEPT ![Loc(Path("", Head(members).name))] = {t}])

\* json_files = [f for f in extracted_files if f.endswith('.json')]
RECURSIVE JsonFiles(_)
JsonFiles(members) ==
    IF members = << >> THEN << >>
    ELSE IF EndsWith(Head(members).name, "json")
         THEN << Head(members).name >> \o JsonFiles(Tail(members))
         ELSE JsonFiles(Tail(members))

\* os.remove raises when the file is not there, and when the system refuses
\* the removal (a file that is in use, or not removable by this user).
RemoveRaises(l) == ~fs[l].exists \/ l \in locked

\* --------------------------------------------------------------- process_file
\* Lines 279-287: unpack an archive and choose the payload path.
PfExtract(t) ==
    /\ pc[t] = "pf_extract"
    /\ runPre' = [runPre EXCEPT ![t] = store[SessionDb(t)]]
    /\ UNCHANGED << env, catalog, coord, store, file_path, category,
                    existing_time, body, ret, dl, head, gets, fsops, opened,
                    commits, runDoc, prevDoc, used, invalid, tried >>
    /\ IF EndsWith(file_path[t].name, "zip")
       THEN LET f == fs[Loc(file_path[t])] IN
            IF ~f.exists \/ f.content.kind # "zip"
            THEN \* zipfile.ZipFile raises
                 /\ PfRaise(t)
                 /\ runOut' = [runOut EXCEPT ![t] = "raised"]
                 /\ UNCHANGED << disk, json_path, out >>
            ELSE LET found == JsonFiles(f.content.members) IN
                 /\ fs' = ExtractAll(f.content.members, fs)
                 /\ owner' = OwnAll(f.content.members, t, owner)
                 /\ IF found = << >>
                    THEN /\ out' = Say(t, "NoJson")
                         /\ PfReturn(t)
                         /\ runOut' = [runOut EXCEPT ![t] = "nojson"]
                         /\ UNCHANGED json_path
                    ELSE /\ json_path' = [json_path EXCEPT ![t] =
                                Join(Dirname(file_path[t]), found[1])]
                         /\ pc' = [pc EXCEPT ![t] = "pf_dispatch"]
                         /\ runOut' = [runOut EXCEPT ![t] = "running"]
                         /\ UNCHANGED << out, sess >>
       ELSE /\ json_path' = [json_path EXCEPT ![t] = file_path[t]]
            /\ pc' = [pc EXCEPT ![t] = "pf_dispatch"]
            /\ runOut' = [runOut EXCEPT ![t] = "running"]
            /\ UNCHANGED << disk, out, sess >>

\* Lines 289-293: the canonical category clears both tables and commits.
PfClear(t) ==
    /\ pc[t] = "pf_dispatch"
    /\ IsCanonical(category[t])
    /\ store' = [store EXCEPT ![SessionDb(t)] = ClearTables(@)]
    /\ commits' = [commits EXCEPT ![t] = @ + 1]
    /\ used' = UseSession(t)
    /\ pc' = [pc EXCEPT ![t] = "pf_apply"]
    /\ UNCHANGED << env, catalog, coord, disk, file_path, category,
                    json_path, existing_time, body, ret, dl, sess, out,
                    head, gets, fsops, opened, runPre, runDoc, runOut,
                    prevDoc, invalid, tried >>

\* Lines 296-297: any other category is only reported.
PfNotImplemented(t) ==
    /\ pc[t] = "pf_dispatch"
    /\ ~IsCanonical(category[t])
    /\ out' = Say(t, "NotImplemented")
    /\ runOut' = [runOut EXCEPT ![t] = "notimpl"]
    /\ pc' = [pc EXCEPT ![t] = "pf_cleanup"]
    /\ UNCHANGED << env, catalog, coord, disk, store, file_path, category,
                    json_path, existing_time, body, ret, dl, sess, head,
                    gets, fsops, opened, commits, runPre, runDoc, prevDoc,
                    used, invalid, tried >>

\* Line 295, process_allprintings (241-269): read and parse the payload,
\* merge every set and card, commit once.
PfApply(t) ==
    /\ pc[t] = "pf_apply"
    /\ UNCHANGED << env, catalog, coord, disk, file_path, category,
                    json_path, existing_time, body, ret, dl, sess, head,
                    gets, fsops, opened, runPre, prevDoc, invalid, tried >>
    /\ LET f == fs[Loc(json_path[t])] IN
       IF ~f.exists \/ f.content.kind # "json"
       THEN \* open() or json.load raises
            /\ pc' = [pc EXCEPT ![t] = RaiseTo(t)]
            /\ runOut' = [runOut EXCEPT ![t] = "raised"]
            /\ UNCHANGED << store, commits, runDoc, out, used >>
       ELSE IF ApplyRaises(f.content.doc)
       THEN \* the flush raises; nothing of this transaction is committed
            /\ pc' = [pc EXCEPT ![t] = RaiseTo(t)]
            /\ runOut' = [runOut EXCEPT ![t] = "raised"]
            /\ runDoc' = [runDoc EXCEPT ![t] = f.content.doc]
            /\ used' = UseSession(t)
            /\ UNCHANGED << store, commits, out >>
       ELSE /\ store' = [store EXCEPT ![SessionDb(t)] =
                            ApplySets(DataOf(f.content.doc), @)]
            /\ commits' = [commits EXCEPT ![t] = @ + 1]
            /\ runDoc' = [runDoc EXCEPT ![t] = f.content.doc]
            /\ runOut' = [runOut EXCEPT ![t] = "ok"]
            /\ used' = UseSession(t)
            /\ out' = Say(t, "Updated")
            /\ pc' = [pc EXCEPT ![t] = "pf_cleanup"]

\* Lines 299-305: remove the artifact, then the extracted file; the first
\* removal that raises ends the cleanup with a message.
Cleanup(t) ==
    /\ PfReturn(t)
    /\ UNCHANGED << env, catalog, coord, store, file_path, category,
                    json_path, existing_time, body, ret, dl, head, gets,
                    fsops, opened, commits, runPre, runDoc, runOut, prevDoc,
                    used, invalid >>
    /\ LET a == Loc(file_path[t])
           j == Loc(json_path[t])
       IN IF RemoveRaises(a)
          THEN /\ out' = Say(t, "CleanupError")
               /\ tried' = [tried EXCEPT ![t] = {"artifact"}]
               /\ UNCHANGED disk
          ELSE IF ~EndsWith(file_path[t].name, "zip")
          THEN /\ fs' = [fs EXCEPT ![a] = NoFile]
               /\ owner' = [owner EXCEPT ![a] = Nobody]
               /\ tried' = [tried EXCEPT ![t] = {"artifact"}]
               /\ UNCHANGED out
          ELSE IF RemoveRaises(j)
          THEN /\ fs' = [fs EXCEPT ![a] = NoFile]
               /\ owner' = [owner EXCEPT ![a] = Nobody]
               /\ tried' = [tried EXCEPT ![t] = {"artifact", "extracted"}]
               /\ out' = Say(t, "CleanupError")
          ELSE /\ fs' = [fs EXCEPT ![a] = NoFile, ![j] = NoFile]
               /\ owner' = [owner EXCEPT ![a] = Nobody, ![j] = Nobody]
               /\ tried' = [tried EXCEPT ![t] = {"artifact", "extracted"}]
               /\ UNCHANGED out

\* Mutant: the cleanup may run before the payload has been applied.
PfCleanupEarly(t) ==
    /\ pc[t] \in {"pf_apply", "pf_cleanup"}
    /\ Cleanup(t)

\* Lines 299-305 run once the dispatch of lines 289-297 has returned.
PfCleanup(t) ==
    /\ pc[t] = "pf_cleanup"
    /\ Cleanup(t)

\* ------------------------------------------------- select-download (thread 0)
AllPrintingsJson == FName("AllPrintings", "json")
AllPrintingsZip == FName("AllPrintings", "zip")
KeywordsJson == FName("Keywords", "json")
LegacyJson == FName("Legacy", "json")
ReadmeTxt == FName("README", "txt")

Zipped(doc) == ZipFile(<< Member(AllPrintingsJson, JsonFile(doc)) >>)
NoJsonZip == ZipFile(<< Member(ReadmeTxt, Garbage) >>)

\* The files the operator can have on disk and pick in the dialog.
SelChoices ==
    {[name |-> AllPrintingsJson, content |-> JsonFile(d)] : d \in Docs}
    \cup {[name |-> AllPrintingsJson, content |-> Garbage]}
    \cup {[name |-> AllPrintingsZip, content |-> Zipped(d)] :
              d \in {x \in Docs : Len(DataOf(x)) <= 1}}
    \cup {[name |-> AllPrintingsZip, content |-> c] : c \in {BadZip, NoJsonZip}}
    \cup {[name |-> KeywordsJson, content |-> JsonFile(d)] :
              d \in {x \in GoodDocs : Len(DataOf(x)) = 0}}

\* filename.split('.')[0]
CategoryOfName(name) == name.stem

\* The directories the dialog can return a path in: the working directory
\* and another one.
SelDirs == {"/cwd", "/data"}

\* download_selected, lines 2057-2067: the operator picks a file that is on
\* disk (the dialog returns its absolute path); the category is derived
\* from its name and a session is opened.
SelectDownload(choice) ==
    /\ pc[Main] = "idle"
    /\ LET p == Path(dialogDir, choice.name) IN
       /\ fs' = [fs EXCEPT ![Loc(p)] = File(choice.content, Now)]
       /\ owner' = [owner EXCEPT ![Loc(p)] = Nobody]
       /\ file_path' = [file_path EXCEPT ![Main] = p]
       /\ json_path' = [json_path EXCEPT ![Main] = p]
    /\ category' = [category EXCEPT ![Main] = CategoryOfName(choice.name)]
    /\ sess' = [sess EXCEPT ![Main] =
                    OpenSession(IF argDb # None THEN argDb ELSE DefaultDb)]
    /\ opened' = [opened EXCEPT ![Main] = 1]
    /\ commits' = [commits EXCEPT ![Main] = 0]
    /\ out' = [out EXCEPT ![Main] = {}]
    /\ pc' = [pc EXCEPT ![Main] = "pf_extract"]
    /\ UNCHANGED << env, catalog, coord, store, existing_time, body, ret,
                    dl, head, gets, fsops, runPre, runDoc, runOut, prevDoc,
                    used, invalid, tried >>

\* download_selected, lines 2069-2078: report, and close the session in
\* the finally clause.
SelFinish ==
    /\ pc[Main] \in {"sel_ok", "sel_except"}
    /\ out' = Say(Main, IF pc[Main] = "sel_ok" THEN "Completed"
                        ELSE "ErrorProcessing")
    /\ sess' = [sess EXCEPT ![Main].state = "closed"]
    /\ pc' = [pc EXCEPT ![Main] = "idle"]
    \* history: the run that just ended becomes the previous run
    /\ prevDoc' = IF runOut[Main] = "ok"
                  THEN [valid |-> TRUE, doc |-> runDoc[Main]]
                  ELSE [valid |-> FALSE, doc |-> NoDoc]
    /\ runDoc' = [runDoc EXCEPT ![Main] = NoDoc]
    /\ runOut' = [runOut EXCEPT ![Main] = "none"]
    /\ runPre' = [runPre EXCEPT ![Main] = EmptyTables]
    /\ tried' = [tried EXCEPT ![Main] = {}]
    /\ UNCHANGED << env, catalog, coord, disk, store, file_path, category,
                    json_path, existing_time, body, ret, dl, head, gets,
                    fsops, opened, commits, used, invalid >>

\* ------------------------------------------------------------ link catalog
MaxPaths == 2    \* entries of 'paths' in the enumerated metadata documents

MtgjsonBaseUrl == "https://mtgjson.com"

\* A path is the sequence of its segments: << "api", "v5", "Foo" >> is
\* "/api/v5/Foo", << >> is the empty string.
FooPath == << "api", "v5", "Foo" >>
BarPath == << "api", "v5", "Bar" >>
PathChoices == {FooPath, BarPath, << >>}
Descriptions == {"", "All cards"}

RECURSIVE PathStr(_)
PathStr(path) ==
    IF path = << >> THEN ""
    ELSE "/" \o Head(path) \o PathStr(Tail(path))

\* path.split('/')[-1]
LastSegment(path) == path[Len(path)]

\* An entry of 'paths': a mapping with or without a 'path' key, or a value
\* that is not a mapping.
DictEndpoint(hasPath, path, description) ==
    [isDict |-> TRUE, hasPath |-> hasPath, path |-> path,
     description |-> description]
NonDictEndpoint ==
    [isDict |-> FALSE, hasPath |-> FALSE, path |-> << >>, description |-> ""]
Endpoints ==
    {DictEndpoint(TRUE, p, d) : p \in PathChoices, d \in Descriptions}
    \cup {DictEndpoint(FALSE, << >>, d) : d \in Descriptions}
    \cup {NonDictEndpoint}

\* What the remote serves at Meta.json: a body that is not JSON, JSON that
\* is not a mapping, or a mapping whose data.paths (when present) is a list.
MetaDoc(paths) == [isJson |-> TRUE, isDict |-> TRUE, paths |-> paths]
NotJsonMeta == [isJson |-> FALSE, isDict |-> FALSE, paths |-> << >>]
NotDictMeta == [isJson |-> TRUE, isDict |-> FALSE, paths |-> << >>]
EmptyMeta == MetaDoc(<< >>)
MetaDocs ==
    {MetaDoc(ps) : ps \in SeqsUpTo(Endpoints, MaxPaths)}
    \cup {NotJsonMeta, NotDictMeta}

\* Lines 1173-1187: the two Link objects built for one entry.
JsonLink(e) ==
    [id |-> PathStr(e.path) \o ".json",
     category |-> LastSegment(e.path),
     url |-> MtgjsonBaseUrl \o PathStr(e.path) \o ".json",
     file_type |-> "json",
     description |-> e.description]
ZipLink(e) ==
    [id |-> PathStr(e.path) \o ".json.zip",
     category |-> LastSegment(e.path),
     url |-> MtgjsonBaseUrl \o PathStr(e.path) \o ".json.zip",
     file_type |-> "zip",
     description |-> e.description]

\* Lines 1165-1190: the loop over the entries.  endpoint.get raises on an
\* entry that is not a mapping; acc is the list built up to then.
RECURSIVE DeriveLinks(_, _)
DeriveLinks(endpoints, acc) ==
    IF endpoints = << >> THEN [raised |-> FALSE, files |-> acc]
    ELSE LET e == Head(endpoints) IN
         IF ~e.isDict THEN [raised |-> TRUE, files |-> acc]
         ELSE IF ~e.hasPath \/ e.path = << >>
         THEN DeriveLinks(Tail(endpoints), acc)
         ELSE DeriveLinks(Tail(endpoints),
                          acc \o << JsonLink(e), ZipLink(e) >>)

\* fetch_mtgjson_files (1157-1203): the returned list, the message printed
\* and, as history, how the call really ended.  A body that is not JSON is
\* caught by the first or the second except clause, depending on the
\* exception class response.json() raises; both print and return [].
FetchResults(doc, transportOk) ==
    IF ~transportOk
    THEN {[files |-> << >>, msg |-> "ErrorFetching", how |-> "transport"]}
    ELSE IF ~doc.isJson
    THEN {[files |-> << >>, msg |-> m, how |-> "malformed"] :
              m \in {"ErrorFetching", "ErrorParsing"}}
    ELSE IF ~doc.isDict
    THEN {[files |-> << >>, msg |-> "UnexpectedError", how |-> "unexpected"]}
    ELSE LET r == DeriveLinks(doc.paths, << >>) IN
         IF r.raised
         THEN {[files |-> << >>, msg |-> "UnexpectedError",
                how |-> "unexpected"]}
         ELSE {[files |-> r.files, msg |-> "Found", how |-> "ok"]}

\* link_session.merge(link)
MergeLink(rows, link) == {r \in rows : r.id # link.id} \cup {link}

\* Mutant: an insert that does not look for the row with the same id.
MergeLinksInsert(rows, ls) == rows \cup {ls[i] : i \in 1..Len(ls)}

\* Mutant: the table is replaced by what the fetch returned.
MergeLinksReplace(rows, ls) == {ls[i] : i \in 1..Len(ls)}

RECURSIVE MergeLinks(_, _)
MergeLinks(rows, ls) ==
    IF ls = << >> THEN rows
    ELSE MergeLinks(MergeLink(rows, Head(ls)), Tail(ls))

\* The links table lives in the file --db names (line 2364).
LinkDb == argDb

\* The other variables, which manage-links leaves alone.
pipeline == << fs, owner, store, input, mainpc, idx, threads, pc, file_path,
               category, json_path, existing_time, body, ret, dl, sess, out,
               head, gets, fsops, opened, commits, runPre, runDoc, runOut,
               prevDoc, used, invalid, tried >>

\* manage-links fetch, line 2366: links = fetch_mtgjson_files().
LinkFetch ==
    /\ lpc = "idle"
    /\ \E transportOk \in BOOLEAN :
         \E r \in FetchResults(meta, transportOk) :
            /\ linkList' = r.files
            /\ lout' = {r.msg}
            /\ fetched' = r.how
    /\ lpc' = "store"
    /\ UNCHANGED << pipeline, tz, remoteTime, argDb, dialogDir, locked, meta,
                    links, synced >>

\* manage-links fetch, lines 2367-2370: merge every link, commit, report.
LinkStore ==
    /\ lpc = "store"
    /\ links' = [links EXCEPT ![LinkDb] = MergeLinks(@, linkList)]
    /\ lout' = lout \cup {"Stored"}
    /\ synced' = (synced \/ fetched = "ok")
    /\ lpc' = "idle"
    /\ UNCHANGED << pipeline, tz, remoteTime, argDb, dialogDir, locked, meta,
                    linkList, fetched >>

\* --------------------------------------------------------------- file system
Stems == {"AllPrintings", "Keywords", "Legacy", "README"}
Exts == {"json", "zip", "txt"}
Names == [stem : Stems, ext : Exts]
Locs == [dir : {"cwd", "/data"}, name : Names]

\* --------------------------------------------------------- specification 2
InitLocals ==
    /\ owner = [l \in Locs |-> Nobody]
    /\ pc = [t \in Threads |-> "idle"]
    /\ file_path = [t \in Threads |-> Path("", AllPrintingsJson)]
    /\ json_path = [t \in Threads |-> Path("", AllPrintingsJson)]
    /\ category = [t \in Threads |-> "AllPrintings"]
    /\ existing_time = [t \in Threads |-> NoTime]
    /\ body = [t \in Threads |-> Garbage]
    /\ ret = [t \in Threads |-> None]
    /\ dl = [t \in Threads |-> "none"]
    /\ sess = [t \in Threads |-> NoSession]
    /\ out = [t \in Threads |-> {}]
    /\ head = [t \in Threads |-> [kind |-> "none", time |-> 0]]
    /\ gets = [t \in Threads |-> 0]
    /\ fsops = [t \in Threads |-> 0]
    /\ opened = [t \in Threads |-> 0]
    /\ commits = [t \in Threads |-> 0]
    /\ runPre = [t \in Threads |-> EmptyTables]
    /\ runDoc = [t \in Threads |-> NoDoc]
    /\ runOut = [t \in Threads |-> "none"]
    /\ prevDoc = [valid |-> FALSE, doc |-> NoDoc]
    /\ used = [t \in Threads |-> {}]
    /\ invalid = {}
    /\ tried = [t \in Threads |-> {}]
    /\ links = [d \in DbPaths |-> {}]
    /\ linkList = << >>
    /\ lpc = "idle"
    /\ lout = {}
    /\ fetched = "none"
    /\ synced = FALSE

\* The store after init_db created the tables; no file on disk yet.
InitIngest ==
    /\ fs = [l \in Locs |-> NoFile]
    /\ store = [d \in DbPaths |-> EmptyTables]
    /\ tz = 0
    /\ remoteTime = 0
    /\ argDb = None
    /\ dialogDir = "/cwd"
    /\ locked = {}
    /\ meta = EmptyMeta
    /\ input = << >>
    /\ mainpc = "select-download"
    /\ idx = 0
    /\ threads = << >>
    /\ InitLocals

NextIngest ==
    \/ \E choice \in SelChoices : SelectDownload(choice)
    \/ PfExtract(Main)
    \/ PfClear(Main)
    \/ PfNotImplemented(Main)
    \/ PfApply(Main)
    \/ PfCleanup(Main)
    \/ SelFinish

SpecIngest == InitIngest /\ [][NextIngest]_vars

\* --------------------------------------------------- specification 2, files
\* The same command where the dialog may return a path in another directory
\* than the working directory and the system may refuse to remove one file,
\* over fewer payloads.
FileDocs == {ExampleDocA, [hasData |-> TRUE, data |-> << GoodEntryB >>]}
FileChoices ==
    {c \in SelChoices :
        \/ c.name = KeywordsJson
        \/ c.content \in {Garbage, BadZip, NoJsonZip}
        \/ c.content \in {JsonFile(d) : d \in FileDocs}
        \/ c.content \in {Zipped(d) : d \in FileDocs}}
LockChoices ==
    {{}} \cup {{[dir |-> d, name |-> n]} :
                  d \in {"cwd", "/data"},
                  n \in {AllPrintingsZip, AllPrintingsJson}}

InitFiles ==
    /\ fs = [l \in Locs |-> NoFile]
    /\ store = [d \in DbPaths |-> EmptyTables]
    /\ tz = 0
    /\ remoteTime = 0
    /\ argDb = None
    /\ dialogDir \in SelDirs
    /\ locked \in LockChoices
    /\ meta = EmptyMeta
    /\ input = << >>
    /\ mainpc = "select-download"
    /\ idx = 0
    /\ threads = << >>
    /\ InitLocals

NextFiles ==
    \/ \E choice \in FileChoices : SelectDownload(choice)
    \/ PfExtract(Main)
    \/ PfClear(Main)
    \/ PfNotImplemented(Main)
    \/ PfApply(Main)
    \/ PfCleanup(Main)
    \/ SelFinish

SpecFiles == InitFiles /\ [][NextFiles]_vars

\* --------------------------------------------------------- specification 3
\* The manage-links command run again and again against one metadata
\* document, on a links table that starts empty.
InitLinks ==
    /\ fs = [l \in Locs |-> NoFile]
    /\ store = [d \in DbPaths |-> EmptyTables]
    /\ tz = 0
    /\ remoteTime = 0
    /\ argDb \in DbPaths
    /\ dialogDir = "/cwd"
    /\ locked = {}
    /\ meta \in MetaDocs
    /\ input = << >>
    /\ mainpc = "manage-links"
    /\ idx = 0
    /\ threads = << >>
    /\ InitLocals

NextLinks ==
    \/ LinkFetch
    \/ LinkStore

SpecLinks == InitLinks /\ [][NextLinks]_vars

\* ------------------------------------------------------------ the remote
DocA == ExampleDocA
DocB == [hasData |-> TRUE, data |-> << GoodEntryB >>]

Urls == {"mtgjson/AllPrintings.json.zip", "mirror/AllPrintings.json.zip",
         "mtgjson/AllPrintings.json", "mirror/AllPrintings.json",
         "mtgjson/Keywords.json"}

\* filename = url.split("/")[-1]
UrlFileName(url) ==
    CASE url = "mtgjson/AllPrintings.json.zip" -> AllPrintingsZip
      [] url = "mirror/AllPrintings.json.zip" -> AllPrintingsZip
      [] url = "mtgjson/AllPrintings.json" -> AllPrintingsJson
      [] url = "mirror/AllPrintings.json" -> AllPrintingsJson
      [] url = "mtgjson/Legacy.json" -> LegacyJson
      [] OTHER -> KeywordsJson

\* What each URL serves when the GET succeeds: one mirror serves a corrupt
\* archive, the other bytes that are not JSON.
RemoteBody(url) ==
    CASE url = "mtgjson/AllPrintings.json.zip" -> Zipped(DocA)
      [] url = "mirror/AllPrintings.json.zip" -> BadZip
      [] url = "mtgjson/AllPrintings.json" -> JsonFile(DocB)
      [] url = "mirror/AllPrintings.json" -> Garbage
      [] url = "mtgjson/Legacy.json" -> JsonFile(DocB)
      [] OTHER -> JsonFile(NoDoc)

\* What requests.head(url) can give: an exception, a response without a
\* last-modified header, or the remote's last-modified time.
HeadOutcomes ==
    {[kind |-> "raised", time |-> 0], [kind |-> "nohdr", time |-> 0],
     [kind |-> "hdr", time |-> remoteTime]}
NoHead == [kind |-> "none", time |-> 0]

\* strptime(...).timestamp(): the header's GMT wall-clock time is parsed into
\* a naive datetime and read as local time, so the result is off by the
\* machine's UTC offset.
ParseHttpDate(t, offset) == t - offset

\* ------------------------------------------------------------ list file
\* A line is the sequence of the pieces between its commas, stripped; a
\* blank line has none.  A comment line starts with '#'.
PairLine(cat, url) == [comment |-> FALSE, fields |-> << cat, url >>]
NoSepLine == [comment |-> FALSE, fields |-> << "mtgjson/AllPrintings.json" >>]
BlankLine == [comment |-> FALSE, fields |-> << >>]
CommentLine == [comment |-> TRUE, fields |-> << "# mirrors" >>]
TwoCommaLine ==
    [comment |-> FALSE,
     fields |-> << "Keywords", "v5", "mtgjson/Keywords.json" >>]

LineChoices ==
    {PairLine("AllPrintings", u) : u \in Urls \ {"mtgjson/Keywords.json"}}
    \cup {PairLine("Keywords", "mtgjson/Keywords.json")}
    \cup {NoSepLine, BlankLine, CommentLine, TwoCommaLine}

\* Mutant: a line without a separator is passed over like a blank one.
IgnoredAlsoNoSeparator(line) == Len(line.fields) <= 1 \/ line.comment

\* `if not line or line.startswith("#"): continue`
Ignored(line) == line.fields = << >> \/ line.comment
\* ",".join(parts)
RECURSIVE JoinCommas(_)
JoinCommas(parts) ==
    IF Len(parts) = 1 THEN parts[1]
    ELSE parts[1] \o "," \o JoinCommas(Tail(parts))
\* parts = line.split(",", 1): the line is cut at its first comma only.
SplitOnce(line) ==
    IF Len(line.fields) <= 2 THEN line.fields
    ELSE << line.fields[1], JoinCommas(Tail(line.fields)) >>
\* `if len(parts) != 2`
Malformed(line) == Len(SplitOnce(line)) # 2
Accepted(line) == ~Ignored(line) /\ ~Malformed(line)
LineCategory(line) == SplitOnce(line)[1]
LineUrl(line) == SplitOnce(line)[2]
UrlOf(t) == LineUrl(input[t])

\* -------------------------------------------------------------- download_file
\* download_task never passes force_update.
ForceUpdate == FALSE

\* `if existing_time and not force_update`
Truthy(existing) == existing.exists /\ existing.mtime # 0

\* Mutant: a response without a last-modified header counts as up to date.
FreshDecisionNoHeaderSkips(existing, force, h, offset) ==
    IF Truthy(existing) /\ ~force
    THEN IF \/ h.kind = "nohdr"
            \/ h.kind = "hdr" /\ ParseHttpDate(h.time, offset) <= existing.mtime
         THEN "skip"
         ELSE "get"
    ELSE "get"

\* Lines 185-198: "get" unless the HEAD response carries a last-modified
\* time that, as parsed, is not later than the local modification time.
FreshDecision(existing, force, h, offset) ==
    IF Truthy(existing) /\ ~force
    THEN IF h.kind = "hdr" /\ ParseHttpDate(h.time, offset) <= existing.mtime
         THEN "skip"
         ELSE "get"
    ELSE "get"

\* Mutant: the file is processed whatever download_file returned.
ShouldProcessAlways(r) == TRUE

\* `if download_file(url, filename, progress_bar):`
ShouldProcess(r) == r = "True"

\* download_file returns r after printing msgs, and download_task (lines
\* 317-323) goes on: on True it opens a session of its own and calls
\* process_file, otherwise it reports that the existing file is used and ends.
DownloadReturns(t, r, how, msgs) ==
    /\ ret' = [ret EXCEPT ![t] = r]
    /\ dl' = [dl EXCEPT ![t] = how]
    /\ IF ShouldProcess(r)
       THEN /\ out' = [out EXCEPT ![t] = @ \cup msgs \cup {"ProcessingNew"}]
            /\ sess' = [sess EXCEPT ![t] = OpenSession(DefaultDb)]
            /\ opened' = [opened EXCEPT ![t] = @ + 1]
            /\ pc' = [pc EXCEPT ![t] = "pf_extract"]
       ELSE /\ out' = [out EXCEPT ![t] = @ \cup msgs \cup {"UsingExisting"}]
            /\ pc' = [pc EXCEPT ![t] = "done"]
            /\ UNCHANGED << sess, opened >>

\* Lines 183-200: check_file_exists and the HEAD request.
DlCheck(t) ==
    /\ pc[t] = "dl_check"
    /\ LET f == fs[Loc(file_path[t])]
           existing == IF f.exists THEN SomeTime(f.mtime) ELSE NoTime
       IN /\ existing_time' = [existing_time EXCEPT ![t] = existing]
          /\ \E h \in IF Truthy(existing) /\ ~ForceUpdate
                      THEN HeadOutcomes ELSE {NoHead} :
               /\ head' = [head EXCEPT ![t] = h]
               /\ IF FreshDecision(existing, ForceUpdate, h, tz) = "skip"
                  THEN DownloadReturns(t, "False", "skipped", {"UpToDate"})
                  ELSE /\ out' = IF h.kind = "raised"
                                 THEN Say(t, "TimestampWarning") ELSE out
                       /\ pc' = [pc EXCEPT ![t] = "dl_get"]
                       /\ UNCHANGED << ret, dl, sess, opened >>
    /\ UNCHANGED << env, catalog, coord, disk, store, file_path, category,
                    json_path, body, gets, fsops, commits, runPre, runDoc,
                    runOut, prevDoc, used, invalid, tried >>

\* Lines 202-205: the GET request (stream=False: the whole body is fetched);
\* a transport error or an error status raises into the except clause of
\* lines 218-221.
DlGet(t) ==
    /\ pc[t] = "dl_get"
    /\ gets' = [gets EXCEPT ![t] = @ + 1]
    /\ \E ok \in BOOLEAN :
         IF ok
         THEN /\ body' = [body EXCEPT ![t] = RemoteBody(UrlOf(t))]
              /\ pc' = [pc EXCEPT ![t] = "dl_write"]
              /\ UNCHANGED << out, ret, dl, sess, opened >>
         ELSE /\ DownloadReturns(t, "False", "failed", {"ErrorDownloading"})
              /\ UNCHANGED body
    /\ UNCHANGED << env, catalog, coord, disk, store, file_path, category,
                    json_path, existing_time, head, fsops, commits, runPre,
                    runDoc, runOut, prevDoc, used, invalid, tried >>

\* Lines 208-216: what is at the destination once the file that was there
\* has been removed and the body written to a new file.
Written(old, content) == File(content, Now)

\* Lines 208-221: remove the file that is there, write the body; a removal
\* that raises is caught at line 218 and the call returns False.
DlWrite(t) ==
    /\ pc[t] = "dl_write"
    /\ LET a == Loc(file_path[t]) IN
       IF fs[a].exists /\ RemoveRaises(a)
       THEN /\ fsops' = [fsops EXCEPT ![t] = @ + 1]
            /\ DownloadReturns(t, "False", "failed", {"ErrorDownloading"})
            /\ UNCHANGED disk
       ELSE /\ fs' = [fs EXCEPT ![a] = Written(@, body[t])]
            /\ owner' = [owner EXCEPT ![a] = {t}]
            /\ fsops' = [fsops EXCEPT ![t] =
                             @ + (IF fs[a].exists THEN 2 ELSE 1)]
            /\ DownloadReturns(t, "True", "downloaded",
                               IF fs[a].exists THEN {"Removing"} ELSE {})
    /\ UNCHANGED << env, catalog, coord, store, file_path, category,
                    json_path, existing_time, body, head, gets, commits,
                    runPre, runDoc, runOut, prevDoc, used, invalid, tried >>

\* ----------------------------------------------------------------- main
\* Mutant: a join that does not wait.
JoinNoWait(p) == TRUE

\* thread.join() returns once the thread has ended, by return or by an
\* exception that nothing caught.
ThreadFinished(p) == p \in {"done", "crashed"}

\* Lines 2312-2314: main opens its own session on --db.
MainOpen ==
    /\ mainpc = "start"
    /\ sess' = [sess EXCEPT ![Main] = OpenSession(argDb)]
    /\ opened' = [opened EXCEPT ![Main] = @ + 1]
    /\ mainpc' = "launch"
    /\ idx' = 1
    /\ UNCHANGED << env, catalog, threads, disk, store, pc, file_path,
                    category, json_path, existing_time, body, ret, dl, out,
                    head, gets, fsops, commits, runPre, runDoc, runOut,
                    prevDoc, used, invalid, tried >>

\* Lines 2328-2344 (2319-2322 for --urls): one line of the batch; an accepted
\* line starts a thread running download_task (lines 314-315).
MainLaunch ==
    /\ mainpc = "launch"
    /\ idx <= Len(input)
    /\ idx' = idx + 1
    /\ LET line == input[idx] IN
       IF Ignored(line)
       THEN UNCHANGED << threads, pc, file_path, category, out, invalid >>
       ELSE IF Malformed(line)
       THEN /\ out' = Say(Main, "InvalidLine")
            /\ invalid' = invalid \cup {idx}
            /\ UNCHANGED << threads, pc, file_path, category >>
       ELSE /\ threads' = Append(threads, idx)
            /\ pc' = [pc EXCEPT ![idx] = "dl_check"]
            /\ file_path' = [file_path EXCEPT ![idx] =
                                Path("", UrlFileName(LineUrl(line)))]
            /\ category' = [category EXCEPT ![idx] = LineCategory(line)]
            /\ UNCHANGED << out, invalid >>
    /\ UNCHANGED << env, catalog, mainpc, disk, store, json_path,
                    existing_time, body, ret, dl, sess, head, gets, fsops,
                    opened, commits, runPre, runDoc, runOut, prevDoc, used,
                    tried >>

\* The end of the launching loop.
MainLaunched ==
    /\ mainpc = "launch"
    /\ idx > Len(input)
    /\ mainpc' = "join"
    /\ idx' = 1
    /\ UNCHANGED << env, catalog, threads, disk, store, pc, file_path,
                    category, json_path, existing_time, body, ret, dl, sess,
                    out, head, gets, fsops, opened, commits, runPre, runDoc,
                    runOut, prevDoc, used, invalid, tried >>

\* Lines 2346-2347: join the started threads in order.
MainJoin ==
    /\ mainpc = "join"
    /\ idx <= Len(threads)
    /\ ThreadFinished(pc[threads[idx]])
    /\ idx' = idx + 1
    /\ UNCHANGED << env, catalog, mainpc, threads, disk, store, pc,
                    file_path, category, json_path, existing_time, body,
                    ret, dl, sess, out, head, gets, fsops, opened, commits,
                    runPre, runDoc, runOut, prevDoc, used, invalid, tried >>

\* The download branch is over: main returns.
MainReturn ==
    /\ mainpc = "join"
    /\ idx > Len(threads)
    /\ mainpc' = "returned"
    /\ UNCHANGED << env, catalog, idx, threads, disk, store, pc, file_path,
                    category, json_path, existing_time, body, ret, dl, sess,
                    out, head, gets, fsops, opened, commits, runPre, runDoc,
                    runOut, prevDoc, used, invalid, tried >>

\* --------------------------------------------------------- specification 1
TzOffsets == {-1, 0, 1}

\* Files a previous run can have left in the working directory: at most one
\* of the names the batch downloads, with any modification time.
OldContent(name) ==
    IF EndsWith(name, "zip") THEN Zipped(DocA) ELSE JsonFile(DocA)
InitialFiles ==
    {[l \in Locs |-> NoFile]}
    \cup {[l \in Locs |-> IF l = [dir |-> "cwd", name |-> n]
                          THEN File(OldContent(n), m) ELSE NoFile] :
              n \in {AllPrintingsZip, AllPrintingsJson}, m \in Times}

\* The download command before main's first statement.
InitBatch ==
    /\ store = [d \in DbPaths |-> EmptyTables]
    /\ argDb = DefaultDb
    /\ dialogDir = "/cwd"
    /\ locked = {}
    /\ meta = EmptyMeta
    /\ input \in [1..NItems -> LineChoices]
    /\ mainpc = "start"
    /\ idx = 0
    /\ threads = << >>
    /\ InitLocals

Init ==
    /\ fs \in InitialFiles
    /\ tz \in TzOffsets
    /\ remoteTime \in Times
    /\ InitBatch

\* The same command started in an empty working directory on a machine
\* whose clock is UTC.
InitFresh ==
    /\ fs = [l \in Locs |-> NoFile]
    /\ tz = 0
    /\ remoteTime = 0
    /\ InitBatch

WorkerStep(t) ==
    \/ DlCheck(t)
    \/ DlGet(t)
    \/ DlWrite(t)
    \/ PfExtract(t)
    \/ PfClear(t)
    \/ PfNotImplemented(t)
    \/ PfApply(t)
    \/ PfCleanup(t)

MainStep ==
    \/ MainOpen
    \/ MainLaunch
    \/ MainLaunched
    \/ MainJoin
    \/ MainReturn

Next ==
    \/ MainStep
    \/ \E t \in Workers : WorkerStep(t)

Spec == Init /\ [][Next]_vars

\* ------------------------------------------- specification 3, changing
\* The manage-links command run again and again while the remote replaces
\* its metadata document between runs.
MetaChanges ==
    /\ lpc = "idle"
    /\ meta' \in MetaDocs \ {meta}
    /\ UNCHANGED << pipeline, tz, remoteTime, argDb, dialogDir, locked, links,
                    linkList, lpc, lout, fetched, synced >>

NextSync ==
    \/ LinkFetch
    \/ LinkStore
    \/ MetaChanges

SpecSync == InitLinks /\ [][NextSync]_vars

\* ------------------------------------------------ specification 1, --urls
\* `download --urls u1 u2 [--category c] [--db path]` started in an empty
\* working directory: every URL is an item of the one category, and the
\* URLs are of files with different names, one of them a corrupt archive.
UrlArgs == {"mtgjson/AllPrintings.json.zip", "mtgjson/Legacy.json",
            "mirror/AllPrintings.json.zip"}
CategoryArgs == {"AllPrintings", "Keywords"}

InitUrls ==
    /\ fs = [l \in Locs |-> NoFile]
    /\ store = [d \in DbPaths |-> EmptyTables]
    /\ tz = 0
    /\ remoteTime = 0
    /\ argDb \in DbPaths
    /\ dialogDir = "/cwd"
    /\ locked = {}
    /\ meta = EmptyMeta
    /\ \E c \in CategoryArgs :
          input \in [1..NItems -> {PairLine(c, u) : u \in UrlArgs}]
    /\ mainpc = "start"
    /\ idx = 0
    /\ threads = << >>
    /\ InitLocals

SpecUrls == InitUrls /\ [][Next]_vars

\* Every thread that can take a step eventually takes one: the threads are
\* operating-system threads and every request of the model returns.
FairSpec ==
    /\ InitFresh
    /\ [][Next]_vars
    /\ WF_vars(MainStep)
    /\ \A t \in Workers : WF_vars(WorkerStep(t))

\* ----------------------------------------------------- claims on SpecIngest
\* What a payload lists, stated without the transformer's loops.
DocCodes(doc) == {DataOf(doc)[i].code : i \in 1..Len(DataOf(doc))}
Listings(doc) ==
    {<< i, k >> \in (1..Len(DataOf(doc))) \X (1..MaxCards + 1) :
        k <= Len(DataOf(doc)[i].cards)}
ListedUuids(doc) == {DataOf(doc)[l[1]].cards[l[2]].uuid : l \in Listings(doc)}
ExpectedSets(doc) ==
    {[code |-> DataOf(doc)[i].code, name |-> DataOf(doc)[i].name,
      release_date |-> DataOf(doc)[i].releaseDate] : i \in 1..Len(DataOf(doc))}
\* Row r is the card-record c as listed under set-code code.
IsListing(r, c, code) ==
    /\ r.uuid = c.uuid /\ r.name = c.name /\ r.type = c.type
    /\ r.rarity = c.rarity /\ r.text = c.text /\ r.set_code = code
UniqueKeys(tables) ==
    /\ \A r, q \in tables.sets : r.code = q.code => r = q
    /\ \A r, q \in tables.cards : r.uuid = q.uuid => r = q

\* The ingestion on the calling thread has committed and not yet been
\* followed by another one.
Ingested == runOut[Main] = "ok" /\ pc[Main] \in {"pf_cleanup", "sel_ok"}
MainTables == store[SessionDb(Main)]
ExampleDoc == ExampleDocA

\* C1: after a canonical payload D is ingested into any store state, the Set
\* rows are exactly one row per set-code key of D.data, with that set's name
\* and release date, and the Card rows are exactly one row per listed card
\* uuid, each a listing of that uuid with the set-code it was listed under.
C1_IngestProjectsPayload ==
    Ingested =>
        LET D == runDoc[Main] IN
        /\ MainTables.sets = ExpectedSets(D)
        /\ Cardinality(MainTables.sets) = Cardinality(DocCodes(D))
        /\ {r.uuid : r \in MainTables.cards} = ListedUuids(D)
        /\ Cardinality(MainTables.cards) = Cardinality(ListedUuids(D))
        /\ \A r \in MainTables.cards :
              \E l \in Listings(D) :
                 IsListing(r, DataOf(D)[l[1]].cards[l[2]], DataOf(D)[l[1]].code)

\* C1 witness: the one-set one-card payload ingested into a store that held
\* other rows leaves exactly 1 Set row (SET1) and 1 Card row (u1, SET1).
C1_Witness ==
    /\ Ingested
    /\ runDoc[Main] = ExampleDoc
    /\ \E r \in runPre[Main].sets : r.code = "SET2"
    /\ {r.code : r \in MainTables.sets} = {"SET1"}
    /\ {<< r.uuid, r.set_code >> : r \in MainTables.cards}
           = {<< "u1", "SET1" >>}

\* C2: ingesting the same valid canonical dataset twice in sequence leaves
\* the store after the second run equal to the store after the first, and no
\* two rows share a Set.code or a Card.uuid.
C2_IdempotentUpsert ==
    (Ingested /\ prevDoc.valid /\ prevDoc.doc = runDoc[Main]) =>
        /\ MainTables = runPre[Main]
        /\ UniqueKeys(MainTables)

\* C2 witness: a second run of a payload that lists one uuid under two sets.
C2_Witness ==
    /\ Ingested /\ prevDoc.valid /\ prevDoc.doc = runDoc[Main]
    /\ Cardinality(DocCodes(runDoc[Main])) = 2
    /\ Cardinality(Listings(runDoc[Main])) = 2
    /\ Cardinality(ListedUuids(runDoc[Main])) = 1
    /\ Cardinality(MainTables.cards) = 1

\* C3: after ingesting D1 and then D2, the store holds only D2's sets and
\* cards: no row whose key appears only in D1 remains.
C3_FullReplace ==
    (Ingested /\ prevDoc.valid) =>
        LET D1 == prevDoc.doc
            D2 == runDoc[Main]
        IN /\ \A r \in MainTables.sets :
                 /\ r.code \in DocCodes(D2)
                 /\ r.code \notin DocCodes(D1) \ DocCodes(D2)
           /\ \A r \in MainTables.cards :
                 /\ r.uuid \in ListedUuids(D2)
                 /\ r.set_code \in DocCodes(D2)
                 /\ r.uuid \notin ListedUuids(D1) \ ListedUuids(D2)

\* C3 witness: D1 had a set and a card that D2 does not have.
C3_Witness ==
    /\ Ingested /\ prevDoc.valid
    /\ DocCodes(prevDoc.doc) \ DocCodes(runDoc[Main]) # {}
    /\ ListedUuids(prevDoc.doc) \ ListedUuids(runDoc[Main]) # {}
    /\ runPre[Main].cards # {}
    /\ MainTables.sets # {}

\* C4 (as claimed): an ingestion that fails part-way leaves the committed
\* Set/Card contents as they were before it started.
C4_FailedIngestKeepsStore ==
    runOut[Main] = "raised" => MainTables = runPre[Main]

\* ------------------------------------------------------------ claims on Spec
Started(t) == pc[t] # "idle"
CheckDone(t) == pc[t] \notin {"idle", "dl_check"}
Ended(t) == pc[t] \in {"done", "crashed"}

\* C5 (as claimed): with force_update false, a local file present and the
\* remote's last-modified time not newer than the local modification time,
\* download_file issues no GET, writes and removes nothing, and returns the
\* not-downloaded outcome.
C5_FreshnessShortCircuit ==
    \A t \in Workers :
        ( /\ CheckDone(t)
          /\ ~ForceUpdate
          /\ existing_time[t].exists
          /\ head[t].kind \notin {"raised", "nohdr"}
          /\ remoteTime <= existing_time[t].mtime )
        => /\ gets[t] = 0
           /\ fsops[t] = 0
           /\ dl[t] = "skipped"
           /\ ret[t] = "False"

\* C6: when there is no local file, or the HEAD request raises, or its
\* response has no last-modified header, the freshness check does not end
\* the transfer or the thread: the GET is attempted next.
C6_FreshnessFallback ==
    \A t \in Workers :
        ( /\ CheckDone(t)
          /\ \/ ~existing_time[t].exists
             \/ head[t].kind \in {"raised", "nohdr"} )
        => /\ dl[t] # "skipped"
           /\ \/ pc[t] = "dl_get" /\ gets[t] = 0
              \/ gets[t] = 1

\* C6 witness: a local file was there, the HEAD response had no header, and
\* the file was downloaded again.
C6_Witness ==
    \E t \in Workers :
        /\ existing_time[t].exists
        /\ head[t].kind = "nohdr"
        /\ gets[t] = 1
        /\ dl[t] = "downloaded"

\* C7: a transport error ends download_file by a return, not an exception,
\* and download_task then opens no session, runs no ingestion and commits
\* nothing to the store.
C7_FailedTransferNoIngest ==
    \A t \in Workers :
        dl[t] = "failed"
        => /\ pc[t] = "done"
           /\ ret[t] = "False"
           /\ sess[t] = NoSession
           /\ opened[t] = 0
           /\ commits[t] = 0
           /\ runOut[t] = "none"

\* C7 witness: a batch whose only started item failed at the GET has
\* returned with the store as it was.
C7_Witness ==
    /\ mainpc = "returned"
    /\ Len(threads) = 1
    /\ dl[threads[1]] = "failed"
    /\ gets[threads[1]] = 1
    /\ store[DefaultDb] = EmptyTables

\* C8 (as claimed): the caller of download_file can tell skipped, downloaded
\* and failed apart, and the status line of an item matches what happened:
\* a failed transfer is not reported as using the existing file.
C8_DistinctOutcomes ==
    /\ \A t \in Workers :
          dl[t] = "failed" => "UsingExisting" \notin out[t]
    /\ \A t, u \in Workers :
          (dl[t] # "none" /\ dl[u] # "none" /\ ret[t] = ret[u])
              => dl[t] = dl[u]

\* The body is a payload the canonical ingestion accepts.
ValidJson(c) == c.kind = "json" /\ ~ApplyRaises(c.doc)
ValidPayload(c) ==
    \/ ValidJson(c)
    \/ /\ c.kind = "zip"
       /\ \E i \in 1..Len(c.members) :
             /\ c.members[i].name.ext = "json"
             /\ ValidJson(c.members[i].content)
             /\ \A k \in 1..(i - 1) : c.members[k].name.ext # "json"
\* Item t got a good canonical payload of its own.
GoodItem(t) ==
    /\ Lower(category[t]) = "allprintings"
    /\ dl[t] = "downloaded"
    /\ ValidPayload(body[t])
\* Item t fails on its own input: at the transfer, or on what it received.
AlwaysFails(t) ==
    \/ dl[t] = "failed"
    \/ dl[t] = "downloaded" /\ ~ValidPayload(body[t])

\* C9 (as claimed): in a batch where every other item fails, an item with a
\* good transfer and a good payload runs to completion and commits its data.
C9_ConcurrentIndependence ==
    \A j \in Workers :
        ( /\ \A t \in Workers : Started(t) => Ended(t)
          /\ mainpc = "returned"
          /\ GoodItem(j)
          /\ \A k \in Workers \ {j} : Started(k) => AlwaysFails(k) )
        => /\ pc[j] = "done"
           /\ runOut[j] = "ok"

\* The coordinator started exactly one thread per accepted line.
OnePerAccepted ==
    /\ \A i \in 1..Len(input) :
          Cardinality({k \in 1..Len(threads) : threads[k] = i})
              = (IF Accepted(input[i]) THEN 1 ELSE 0)
    /\ \A t \in Workers : Started(t) <=> (t <= Len(input) /\ Accepted(input[t]))

\* C10: the download command starts exactly one thread per accepted work
\* item, returns only after every started thread has ended, and, every unit
\* of work terminating, does return.
C10_JoinAll ==
    /\ [](mainpc = "returned" =>
            /\ OnePerAccepted
            /\ \A k \in 1..Len(threads) : Ended(threads[k]))
    /\ <>(mainpc = "returned")

\* C10 witness: the coordinator has returned from a batch with a line it
\* skipped and a thread that ended by an exception.
C10_Witness ==
    /\ mainpc = "returned"
    /\ Len(threads) >= 1
    /\ \E k \in 1..Len(threads) : pc[threads[k]] = "crashed"
    /\ \E i \in 1..Len(input) : ~Accepted(input[i])

\* Worker t takes the step.
Acts(t) == pc'[t] # pc[t]
\* The step writes or removes the file at l.
Touched(l) == fs'[l] # fs[l] \/ owner'[l] # owner[l]
\* The file at l, if this run created it, was created by t.
OwnOrNobodys(t, l) == owner[l] \subseteq {t}

\* C11 (as claimed): no worker writes or removes a file another worker of
\* the batch created, opens another worker's archive to unpack it, or reads
\* another worker's file as its payload.
C11_ExclusiveOwnership ==
    [][\A t \in Workers :
          Acts(t) =>
            /\ \A l \in Locs : Touched(l) => OwnOrNobodys(t, l)
            /\ ( /\ pc[t] = "pf_extract"
                 /\ EndsWith(file_path[t].name, "zip") )
               => OwnOrNobodys(t, Loc(file_path[t]))
            /\ pc[t] = "pf_apply" => OwnOrNobodys(t, Loc(json_path[t]))]_vars

\* C12: a session is used only by the thread that opened it: every worker
\* that reaches ingestion holds an open session of its own, and no worker
\* issues a statement on the coordinator's session.
C12_SessionPerThread ==
    /\ \A o \in Threads : used[o] \subseteq {o}
    /\ \A t \in Workers :
          pc[t] \in {"pf_extract", "pf_dispatch", "pf_apply", "pf_cleanup"}
              => /\ opened[t] = 1
                 /\ sess[t].state = "open"
    /\ sess[Main].state = "open" => opened[Main] = 1

\* C12 witness: the coordinator's session is open and two workers have each
\* committed through a session of their own.
C12_Witness ==
    /\ sess[Main].state = "open"
    /\ \A t \in Workers : commits[t] >= 1 /\ used[t] = {t}
    /\ used[Main] = {}

\* C13 (as claimed): a worker that opened a session has closed it by the
\* time its thread ends, also when process_file raised.
C13_SessionClosedAtEnd ==
    \A t \in Workers :
        (Ended(t) /\ opened[t] >= 1) => sess[t].state = "closed"

\* The lines of the list file as written: a line without a separator has
\* one field, a `category,url` line has two.
NoSeparator(line) == ~line.comment /\ Len(line.fields) = 1
ValidPair(line) == ~line.comment /\ Len(line.fields) = 2
LinesWhere(P(_)) == {i \in 1..Len(input) : P(input[i])}
\* The launching loop is over.
LaunchOver == mainpc \in {"join", "returned"}

\* C14: for a list file of valid lines and lines without a separator (and
\* blank or comment lines), the coordinator starts one download per valid
\* line, in file order, reports each line without a separator once, and
\* reaches the end of the file.
C14_MalformedResilience ==
    ( /\ LaunchOver
      /\ \A i \in 1..Len(input) :
            input[i].comment \/ Len(input[i].fields) <= 2 )
    => /\ Len(threads) = Cardinality(LinesWhere(ValidPair))
       /\ {threads[k] : k \in 1..Len(threads)} = LinesWhere(ValidPair)
       /\ \A t \in LinesWhere(ValidPair) : Started(t)
       /\ invalid = LinesWhere(NoSeparator)
       /\ Cardinality(invalid) = Cardinality(LinesWhere(NoSeparator))

\* C14 witness: a line without a separator came first, was reported, and
\* the valid line after it was launched and has run to its end.
C14_Witness ==
    /\ mainpc = "returned"
    /\ NoSeparator(input[1])
    /\ ValidPair(input[2])
    /\ invalid = {1}
    /\ threads = << 2 >>
    /\ pc[2] = "done"

BlankOrComment(line) == line.comment \/ line.fields = << >>
\* A line that is neither blank nor a comment and has no comma, or more
\* than one.
NotOneSeparator(line) == ~BlankOrComment(line) /\ Len(line.fields) # 2

\* C15 (as claimed): blank and comment lines start no download and are not
\* reported; every other line without exactly one comma is reported and
\* starts no download.
C15_ListFileParsing ==
    LaunchOver =>
        /\ \A i \in LinesWhere(BlankOrComment) :
              i \notin invalid /\ ~Started(i)
        /\ \A i \in LinesWhere(NotOneSeparator) :
              i \in invalid /\ ~Started(i)

\* ------------------------------------------------------ claims on SpecLinks
\* The paths the metadata document describes: entries with a non-empty path.
DescribedPaths(doc) ==
    {doc.paths[i].path : i \in {k \in 1..Len(doc.paths) :
                                   /\ doc.paths[k].isDict
                                   /\ doc.paths[k].hasPath
                                   /\ doc.paths[k].path # << >>}}
UniqueLinkKeys(rows) ==
    \A r1, r2 \in rows : (r1.id = r2.id \/ r1.url = r2.url) => r1 = r2

\* C16: for one metadata document describing P distinct paths, however
\* often manage-links fetch has run, the links table never holds more than
\* 2*P rows, no two rows share an id or a url, and once a fetch that did not
\* fail has been stored it holds exactly 2*P rows.
C16_CatalogUniqueness ==
    \A d \in DbPaths :
        /\ Cardinality(links[d]) <= 2 * Cardinality(DescribedPaths(meta))
        /\ UniqueLinkKeys(links[d])
        /\ (synced /\ d = argDb)
              => Cardinality(links[d]) = 2 * Cardinality(DescribedPaths(meta))

\* C16 witness: a second fetch of a document describing two paths is under
\* way, with the four rows of the first one stored.
C16_Witness ==
    /\ synced
    /\ lpc = "store"
    /\ fetched = "ok"
    /\ Cardinality(DescribedPaths(meta)) = 2
    /\ Cardinality(links[argDb]) = 4

\* C17 (as claimed): for a document describing the single path /api/v5/Foo
\* the fetch returns two descriptors, identified Foo.json and Foo.json.zip,
\* of file types dataset and archive.
C17_FooDescriptors ==
    ( /\ lpc = "store"
      /\ fetched = "ok"
      /\ Len(meta.paths) = 1
      /\ DescribedPaths(meta) = {FooPath} )
    => /\ Len(linkList) = 2
       /\ linkList[1].id = "Foo.json"
       /\ linkList[1].file_type = "dataset"
       /\ linkList[2].id = "Foo.json.zip"
       /\ linkList[2].file_type = "archive"

\* What a fetch that finds an empty catalog returns.
EmptyCatalogReturns == {r.files : r \in FetchResults(EmptyMeta, TRUE)}

\* C18 (as claimed): a failed fetch returns the empty list, its caller can
\* tell it from a fetch that found an empty catalog and does not report it
\* as stored, and the links table keeps its rows.
C18_FetchFailureSignal ==
    fetched \notin {"ok", "none"}
    => /\ linkList = << >>
       /\ linkList \notin EmptyCatalogReturns
       /\ "Stored" \notin lout

\* ----------------------------------------------- more claims on SpecIngest
\* C19 (as claimed): a file of a category other than the canonical one
\* leaves the Set and Card rows as they were, is reported as not
\* implemented, and is not reported by its caller as processed.
C19_UnimplementedCategory ==
    /\ runOut[Main] = "notimpl" => MainTables = runPre[Main]
    /\ (runOut[Main] = "notimpl" /\ pc[Main] # "pf_dispatch")
          => "NotImplemented" \in out[Main]
    /\ "NotImplemented" \in out[Main] => "Completed" \notin out[Main]

\* Every card row names the code of a set row.
RefIntegrity(tables) ==
    \A c \in tables.cards : \E r \in tables.sets : r.code = c.set_code

\* C20: in every committed state every Card row's set_code is the code of a
\* Set row, and every ingested payload is one whose sets, applied one after
\* the other, keep it so after each set (the set row is merged before its
\* cards).
C20_ReferentialIntegrity ==
    /\ \A d \in DbPaths : RefIntegrity(store[d])
    /\ Ingested =>
          \A k \in 0..Len(DataOf(runDoc[Main])) :
              RefIntegrity(ApplySets(SubSeq(DataOf(runDoc[Main]), 1, k),
                                     EmptyTables))

\* C20 witness: a second, different payload with two sets has been ingested
\* over a store that held cards.
C20_Witness ==
    /\ Ingested /\ prevDoc.valid
    /\ prevDoc.doc # runDoc[Main]
    /\ runPre[Main].cards # {}
    /\ Cardinality(MainTables.sets) = 2
    /\ MainTables.cards # {}

\* --------------------------------------------------- more claims on Spec
\* C21 (as claimed): when a download proceeds over a file that was at the
\* destination, that file has been removed by the time the remote body has
\* been requested.
C21_RemovedBeforeRequest ==
    \A t \in Workers :
        (pc[t] = "dl_write" /\ existing_time[t].exists) => fsops[t] >= 1

\* The part of C21 that holds: download_file touches the destination only
\* after the body has been fetched, and the step that returns the downloaded
\* outcome has removed the file that was there and left exactly the body.
RemovedBeforeWrite ==
    [][\A t \in Workers :
          /\ fsops'[t] # fsops[t] => (pc[t] = "dl_write" /\ gets[t] >= 1)
          /\ (pc[t] = "dl_write" /\ dl'[t] = "downloaded")
                => /\ fs'[Loc(file_path[t])] =
                          [exists |-> TRUE, content |-> body[t],
                           mtime |-> Now]
                   /\ fs[Loc(file_path[t])].exists
                          => fsops'[t] = fsops[t] + 2]_vars

\* ------------------------------------------------- claims on SpecFiles
\* C22 (as claimed): after a successful ingest process_file returns
\* normally whatever the removals did, it has attempted to remove the
\* artifact and, for an archive, the extracted file as well (also when the
\* artifact's removal failed), and a removal that left its file on disk
\* has been reported.
C22_CleanupFailures ==
    runOut[Main] = "ok" =>
        /\ pc[Main] # "sel_except"
        /\ pc[Main] = "sel_ok" =>
              /\ "artifact" \in tried[Main]
              /\ EndsWith(file_path[Main].name, "zip")
                    => "extracted" \in tried[Main]
              /\ fs[Loc(file_path[Main])].exists
                    => "CleanupError" \in out[Main]

\* C25 (as claimed): once process_file has chosen its payload, for an
\* archive the payload path names the place in the working directory where
\* the archive's first member ending in .json was extracted and the file
\* there is that member, for every directory the artifact can be in; for
\* any other artifact the payload is the artifact itself; and what a
\* successful ingest has read is that payload.
C25_PayloadSelection ==
    LET art == fs[Loc(file_path[Main])]
        first == JsonFiles(art.content.members)[1]
        member == CHOOSE m \in {art.content.members[i] :
                                  i \in 1..Len(art.content.members)} :
                      m.name = first
    IN pc[Main] \in {"pf_dispatch", "pf_apply", "pf_cleanup"} =>
          IF EndsWith(file_path[Main].name, "zip")
          THEN /\ Loc(json_path[Main]) = [dir |-> "cwd", name |-> first]
               /\ fs[Loc(json_path[Main])].exists
               /\ fs[Loc(json_path[Main])].content = member.content
               /\ runOut[Main] = "ok" => runDoc[Main] = member.content.doc
          ELSE /\ json_path[Main] = file_path[Main]
               /\ runOut[Main] = "ok" => runDoc[Main] = art.content.doc

\* ------------------------------------------- claims on Spec, continued
\* C23 (as claimed): every ingestion cycle that has ended, by success, by a
\* raise or by an archive without a dataset member, has attempted to remove
\* its artifact.
C23_CleanupOnEveryPath ==
    \A t \in Workers :
        (pc[t] \in {"done", "crashed"} /\ dl[t] = "downloaded")
            => "artifact" \in tried[t]

\* Item t received an archive that cannot be opened.
CorruptItem(t) ==
    /\ dl[t] = "downloaded"
    /\ EndsWith(file_path[t].name, "zip")
    /\ body[t].kind = "badzip"

\* C24 (as claimed): an item whose archive is corrupt ends by the error
\* leaving process_file, is not reported as processed and commits nothing,
\* and every other item of the batch that got a good payload of its own
\* runs to completion and commits its data.
C24_CorruptArchive ==
    \A t \in Workers :
        (CorruptItem(t) /\ Ended(t)) =>
            /\ pc[t] = "crashed"
            /\ "Updated" \notin out[t]
            /\ commits[t] = 0
            /\ \A u \in Workers \ {t} :
                  (GoodItem(u) /\ Ended(u))
                      => (pc[u] = "done" /\ runOut[u] = "ok")

\* C26: a thread's process_file attempts a removal only in its cleanup,
\* which for the canonical category starts after both of its commits (the
\* clearing and the data) have completed; the cleanup leaves the committed
\* store as it is, and the thread commits nothing once its cleanup has run.
C26_CommitBeforeCleanup ==
    [][\A t \in Workers :
          /\ tried'[t] # tried[t] =>
                /\ pc[t] = "pf_cleanup"
                /\ Lower(category[t]) = "allprintings"
                      => (runOut[t] = "ok" /\ commits[t] = 2)
                /\ store' = store
          /\ commits'[t] # commits[t] => tried[t] = {}]_vars

\* C26 witness: a worker has committed an archive's data and then removed
\* the archive and the extracted file.
C26_Witness ==
    \E t \in Workers :
        /\ pc[t] = "done"
        /\ runOut[t] = "ok"
        /\ commits[t] = 2
        /\ tried[t] = {"artifact", "extracted"}
        /\ ~fs[Loc(file_path[t])].exists
        /\ ~fs[Loc(json_path[t])].exists
        /\ store[DefaultDb].cards # {}

\* ---------------------------------------------------- claims on SpecUrls
\* C27 (as claimed): when the two items of a batch are canonical and both
\* threads have completed their ingestion, the store holds exactly the
\* projection of the document one of them ingested: not a mix, not nothing.
C27_LastWriterWins ==
    ( /\ mainpc = "returned"
      /\ \A t \in Workers :
            /\ pc[t] = "done"
            /\ runOut[t] = "ok"
            /\ Lower(category[t]) = "allprintings" )
    => store[DefaultDb] \in
          {ApplySets(DataOf(runDoc[t]), EmptyTables) : t \in Workers}

\* The document a valid payload holds.
PayloadDoc(c) ==
    IF c.kind = "json" THEN c.doc
    ELSE LET i == CHOOSE k \in 1..Len(c.members) :
                      /\ c.members[k].name.ext = "json"
                      /\ \A m \in 1..(k - 1) : c.members[m].name.ext # "json"
         IN c.members[i].content.doc
\* The file is a valid payload and the store holds its rows.
FileCommitted(f, tables) ==
    /\ f.exists
    /\ ValidPayload(f.content)
    /\ LET rows == ApplySets(DataOf(PayloadDoc(f.content)), EmptyTables)
       IN rows.sets \subseteq tables.sets /\ rows.cards \subseteq tables.cards

\* C28 (as claimed): when download_task skips an item because its local
\* file is current, no other item being under way, the data of that file
\* has already been committed to the store.
C28_SkipImpliesCommitted ==
    [][\A t \in Workers :
          ( /\ dl[t] = "none"
            /\ dl'[t] = "skipped"
            /\ \A u \in Workers \ {t} : Started(u) => Ended(u) )
          => FileCommitted(fs[Loc(file_path[t])], store[DefaultDb])]_vars

\* C29 (as claimed): for every value of --db, every session a worker of the
\* download command ingests through is on the store at the --db path, and
\* no row is committed to any other store.
C29_WorkersUseDbArg ==
    /\ \A t \in Workers : sess[t].state # "none" => sess[t].db = argDb
    /\ \A d \in DbPaths \ {argDb} : store[d] = EmptyTables

\* ---------------------------------------------------- claims on SpecSync
LinkIds(rows) == {r.id : r \in rows}

\* C30: over every sequence of manage-links fetch runs against a remote
\* whose metadata changes, no step removes an identifier from a links
\* table; the storing step of a successful fetch leaves, for every
\* descriptor fetched, one row of its identifier carrying its category,
\* URL, type and description (the last of them for a repeated path); and
\* every other step leaves all rows as they are.
C30_SyncNeverRemoves ==
    [][/\ \A d \in DbPaths : LinkIds(links[d]) \subseteq LinkIds(links'[d])
       /\ IF lpc = "store" /\ fetched = "ok"
          THEN \A i \in 1..Len(linkList) :
                  LET same == {k \in 1..Len(linkList) :
                                  linkList[k].id = linkList[i].id}
                      last == CHOOSE k \in same : \A m \in same : m <= k
                  IN {r \in links'[argDb] : r.id = linkList[i].id}
                        = {linkList[last]}
          ELSE links' = links]_vars

\* C30 witness: after a successful fetch has been stored the table holds
\* its rows, one of them replacing a row that carried another description,
\* next to a row whose path the remote no longer describes.
C30_Witness ==
    /\ lpc = "idle"
    /\ fetched = "ok"
    /\ "Stored" \in lout
    /\ linkList # << >>
    /\ \A i \in 1..Len(linkList) : linkList[i].description = "All cards"
    /\ \E r \in links[argDb] :
          /\ r.description = ""
          /\ \A i \in 1..Len(linkList) : linkList[i].id # r.id

====
